---- MODULE Spec2Model ----
(***************************************************************************)
(* Model of src/routes/lib/v1/PackageRequest.js: the metadata loaders      *)
(* (fetchNpmMetadata, fetchGitHubMetadata) behind the shared promise       *)
(* cache, and version resolution (getResolvedVersion).                     *)
(*                                                                         *)
(* Strings are sequences of one-character strings, so that charAt, substr  *)
(* and the semver grammar are computed and not assumed.                    *)
(***************************************************************************)
EXTENDS Integers, Sequences, FiniteSets, TLC

(***************************************************************************)
(* Strings                                                                 *)
(***************************************************************************)
Digits == {"0", "1", "2", "9"}

DigitVal(c) == CASE c = "0" -> 0 [] c = "1" -> 1 [] c = "2" -> 2 [] c = "9" -> 9

\* UTF-16 code units of the characters that occur in the model's strings
\* (JavaScript compares strings by code unit).
CharCode(c) ==
    CASE c = "-" -> 45 [] c = "." -> 46
      [] c = "0" -> 48 [] c = "1" -> 49 [] c = "2" -> 50 [] c = "9" -> 57
      [] c = "^" -> 94
      [] c = "a" -> 97 [] c = "b" -> 98 [] c = "e" -> 101 [] c = "f" -> 102
      [] c = "g" -> 103 [] c = "h" -> 104 [] c = "l" -> 108 [] c = "n" -> 110
      [] c = "o" -> 111 [] c = "s" -> 115 [] c = "t" -> 116 [] c = "v" -> 118

\* [0-9A-Za-z-], the characters of a semver pre-release identifier
IdChars == Digits \cup {"-", "a", "b", "e", "f", "g", "h", "l", "n", "o", "s", "t", "v"}

RECURSIVE IndexOf(_, _, _)
\* first index >= i of character c in s, 0 when there is none
IndexOf(s, c, i) ==
    IF i > Len(s) THEN 0
    ELSE IF s[i] = c THEN i
    ELSE IndexOf(s, c, i + 1)

RECURSIVE Split(_, _)
\* String.prototype.split on one separator character
Split(s, c) ==
    LET i == IndexOf(s, c, 1)
    IN IF i = 0 THEN <<s>>
       ELSE <<SubSeq(s, 1, i - 1)>> \o Split(SubSeq(s, i + 1, Len(s)), c)

AllIn(s, set) == \A i \in 1..Len(s) : s[i] \in set

RECURSIVE ToNumber(_)
\* decimal value of a string of digits
ToNumber(s) ==
    IF Len(s) = 0 THEN 0
    ELSE 10 * ToNumber(SubSeq(s, 1, Len(s) - 1)) + DigitVal(s[Len(s)])

RECURSIVE StringLess(_, _)
\* JavaScript a < b on strings
StringLess(a, b) ==
    IF Len(b) = 0 THEN FALSE
    ELSE IF Len(a) = 0 THEN TRUE
    ELSE IF CharCode(a[1]) # CharCode(b[1]) THEN CharCode(a[1]) < CharCode(b[1])
    ELSE StringLess(Tail(a), Tail(b))

\* s.charAt(0) === 'v' ? s.substr(1) : s
StripV(s) == IF Len(s) > 0 /\ s[1] = "v" THEN Tail(s) ELSE s

(***************************************************************************)
(* semver (node-semver, strict mode), on the strings of the model          *)
(***************************************************************************)
\* (0|[1-9]\d*)
NumericId(s) == Len(s) > 0 /\ AllIn(s, Digits) /\ (Len(s) = 1 \/ s[1] # "0")

\* a pre-release identifier: numeric without leading zeros, or alphanumeric
PrereleaseId(s) ==
    /\ Len(s) > 0
    /\ AllIn(s, IdChars)
    /\ (AllIn(s, Digits) => NumericId(s))

InvalidVersion == [valid |-> FALSE, major |-> 0, minor |-> 0, patch |-> 0, pre |-> <<>>]

\* semver.parse: v?MAJOR.MINOR.PATCH(-PRERELEASE)?
SemverParse(s) ==
    LET t == IF Len(s) > 0 /\ s[1] = "v" THEN Tail(s) ELSE s
        dash == IndexOf(t, "-", 1)
        main == IF dash = 0 THEN t ELSE SubSeq(t, 1, dash - 1)
        rest == IF dash = 0 THEN <<>> ELSE SubSeq(t, dash + 1, Len(t))
        nums == Split(main, ".")
        ids == IF dash = 0 THEN <<>> ELSE Split(rest, ".")
    IN IF /\ Len(nums) = 3
          /\ \A i \in 1..3 : NumericId(nums[i])
          /\ \A i \in 1..Len(ids) : PrereleaseId(ids[i])
       THEN [valid |-> TRUE, major |-> ToNumber(nums[1]), minor |-> ToNumber(nums[2]),
             patch |-> ToNumber(nums[3]), pre |-> ids]
       ELSE InvalidVersion

\* semver.valid(v), as a truth value
SemverValid(s) == SemverParse(s).valid

\* semver.prerelease(v), as a truth value: a valid version with pre-release identifiers
SemverPrerelease(s) == SemverParse(s).valid /\ Len(SemverParse(s).pre) > 0

Sign(a, b) == IF a < b THEN -1 ELSE IF a > b THEN 1 ELSE 0

\* compareIdentifiers: numeric identifiers by value and below alphanumeric ones
CompareIdentifiers(a, b) ==
    LET anum == AllIn(a, Digits)
        bnum == AllIn(b, Digits)
    IN IF anum /\ bnum THEN Sign(ToNumber(a), ToNumber(b))
       ELSE IF anum THEN -1
       ELSE IF bnum THEN 1
       ELSE IF a = b THEN 0
       ELSE IF StringLess(a, b) THEN -1 ELSE 1

RECURSIVE ComparePreFrom(_, _, _)
ComparePreFrom(a, b, i) ==
    IF i > Len(a) /\ i > Len(b) THEN 0
    ELSE IF i > Len(b) THEN 1
    ELSE IF i > Len(a) THEN -1
    ELSE IF a[i] = b[i] THEN ComparePreFrom(a, b, i + 1)
    ELSE CompareIdentifiers(a[i], b[i])

\* SemVer.prototype.comparePre: a release is above its pre-releases
ComparePre(a, b) ==
    IF Len(a) > 0 /\ Len(b) = 0 THEN -1
    ELSE IF Len(a) = 0 /\ Len(b) > 0 THEN 1
    ELSE IF Len(a) = 0 /\ Len(b) = 0 THEN 0
    ELSE ComparePreFrom(a, b, 1)

\* SemVer.prototype.compare on parsed versions
CompareParsed(x, y) ==
    IF x.major # y.major THEN Sign(x.major, y.major)
    ELSE IF x.minor # y.minor THEN Sign(x.minor, y.minor)
    ELSE IF x.patch # y.patch THEN Sign(x.patch, y.patch)
    ELSE ComparePre(x.pre, y.pre)

\* semver.compare(a, b) and semver.rcompare(a, b), both on valid versions
SemverCompare(a, b) == CompareParsed(SemverParse(a), SemverParse(b))
SemverRcompare(a, b) == SemverCompare(b, a)

\* Array.prototype.sort(semver.rcompare): stable, descending
SortRcompare(s) ==
    LET ins(t, x) ==
            LET k == Cardinality({i \in 1..Len(t) : SemverRcompare(t[i], x) <= 0})
            IN SubSeq(t, 1, k) \o <<x>> \o SubSeq(t, k + 1, Len(t))
        f[i \in 0..Len(s)] == IF i = 0 THEN <<>> ELSE ins(f[i - 1], s[i])
    IN f[Len(s)]

\* Array.prototype.filter
RECURSIVE FilterValidRelease(_)
FilterValidRelease(s) ==
    IF Len(s) = 0 THEN <<>>
    ELSE IF SemverValid(s[1]) /\ ~SemverPrerelease(s[1])
         THEN <<s[1]>> \o FilterValidRelease(Tail(s))
         ELSE FilterValidRelease(Tail(s))

InvalidRange == [valid |-> FALSE, caret |-> FALSE, lo |-> InvalidVersion]

\* new Range(range): the comparator forms the model's specifiers use, an exact
\* version (=X.Y.Z) and a caret range (^X.Y.Z); any other string of the model
\* is no comparator and the constructor throws.
SemverRange(r) ==
    IF Len(r) > 0 /\ r[1] = "^"
    THEN LET v == SemverParse(Tail(r))
         IN IF v.valid THEN [valid |-> TRUE, caret |-> TRUE, lo |-> v] ELSE InvalidRange
    ELSE LET v == SemverParse(r)
         IN IF v.valid THEN [valid |-> TRUE, caret |-> FALSE, lo |-> v] ELSE InvalidRange

\* the exclusive upper bound of ^lo
CaretUpper(lo) ==
    IF lo.major > 0
    THEN [valid |-> TRUE, major |-> lo.major + 1, minor |-> 0, patch |-> 0, pre |-> <<>>]
    ELSE IF lo.minor > 0
    THEN [valid |-> TRUE, major |-> 0, minor |-> lo.minor + 1, patch |-> 0, pre |-> <<>>]
    ELSE [valid |-> TRUE, major |-> 0, minor |-> 0, patch |-> lo.patch + 1, pre |-> <<>>]

\* Range.prototype.test(version): every comparator holds, and a pre-release
\* version only matches a comparator on the same MAJOR.MINOR.PATCH that has a
\* pre-release itself.
RangeTest(range, s) ==
    LET v == SemverParse(s)
    IN /\ v.valid
       /\ IF range.caret
          THEN CompareParsed(v, range.lo) >= 0 /\ CompareParsed(v, CaretUpper(range.lo)) < 0
          ELSE CompareParsed(v, range.lo) = 0
       /\ Len(v.pre) > 0 =>
             /\ Len(range.lo.pre) > 0
             /\ v.major = range.lo.major /\ v.minor = range.lo.minor
             /\ v.patch = range.lo.patch

\* semver.maxSatisfying(versions, range): null when the range does not parse,
\* else the first of the highest versions that the range accepts
MaxSatisfyingIndex(versions, r) ==
    LET range == SemverRange(r)
        f[i \in 0..Len(versions)] ==
            IF i = 0 THEN 0
            ELSE IF /\ RangeTest(range, versions[i])
                    /\ (f[i - 1] = 0 \/ SemverCompare(versions[f[i - 1]], versions[i]) = -1)
                 THEN i
                 ELSE f[i - 1]
    IN IF range.valid THEN f[Len(versions)] ELSE 0

(***************************************************************************)
(* Values: what a resolution returns                                        *)
(***************************************************************************)
Str(s) == [k |-> "str", s |-> s, n |-> 0]
Num(n) == [k |-> "num", s |-> <<>>, n |-> n]
Null == [k |-> "null", s |-> <<>>, n |-> 0]
Threw == [k |-> "throw", s |-> <<>>, n |-> 0]
Pending == [k |-> "pending", s |-> <<>>, n |-> 0]

(***************************************************************************)
(* The strings of the model                                                *)
(***************************************************************************)
Empty == <<>>
Latest == <<"l", "a", "t", "e", "s", "t">>
Beta == <<"b", "e", "t", "a">>
Length == <<"l", "e", "n", "g", "t", "h">>
Foo == <<"f", "o", "o">>
V200 == <<"2", ".", "0", ".", "0">>
V199 == <<"1", ".", "9", ".", "9">>
V100 == <<"1", ".", "0", ".", "0">>
V100beta == <<"1", ".", "0", ".", "0", "-", "b", "e", "t", "a">>
Caret100 == <<"^", "1", ".", "0", ".", "0">>
Caret200 == <<"^", "2", ".", "0", ".", "0">>

\* keys of a registry response's versions object (a registry only publishes
\* semantic versions)
VersionNames == {V200, V199, V100, V100beta}

\* raw tag names of a repository
TagNames == {<<"v">> \o V200, V199, <<"v">> \o V100beta, Foo, <<"v", "v">> \o V100, <<"v">>}

\* this.params.version
Specifiers == {Empty, Latest, Beta, Length, Foo, V200, V199, V100beta, Caret100, Caret200}

(***************************************************************************)
(* Metadata documents                                                      *)
(***************************************************************************)
\* metadata.tags is response.body['dist-tags'] (an object, or undefined when the
\* registry sent none) for npm and the array literal [] for GitHub.
TagsUndefined == [kind |-> "undefined", map |-> <<>>]
TagsArray == [kind |-> "array", map |-> <<>>]
TagsObject(m) == [kind |-> "object", map |-> m]

\* {}.hasOwnProperty.call(tags, key), for tags that are an object or an array:
\* an empty array owns the property "length"
HasOwnProperty(tags, key) ==
    IF tags.kind = "array" THEN key = Length ELSE key \in DOMAIN tags.map

\* tags[key] for an own property
TagValue(tags, key) ==
    IF tags.kind = "array" THEN Num(0) ELSE Str(tags.map[key])

Includes(s, x) == \E i \in 1..Len(s) : s[i] = x

(***************************************************************************)
(* Version resolution: PackageRequest.getResolvedVersion                   *)
(***************************************************************************)
\* a plausible slip: pre-releases are not filtered out
CandidatesKeepPrerelease(metadata) ==
    LET valid[i \in 0..Len(metadata.versions)] ==
            IF i = 0 THEN <<>>
            ELSE IF SemverValid(metadata.versions[i])
                 THEN Append(valid[i - 1], metadata.versions[i])
                 ELSE valid[i - 1]
    IN SortRcompare(valid[Len(metadata.versions)])

\* metadata.versions.filter(v => semver.valid(v) && !semver.prerelease(v)).sort(semver.rcompare)
Candidates(metadata) == SortRcompare(FilterValidRelease(metadata.versions))

\* a plausible slip: the first element is taken for the highest match
MaxSatisfyingFirstElement(versions, r) ==
    IF Len(versions) = 0 \/ ~SemverRange(r).valid THEN Null ELSE Str(versions[1])

\* semver.maxSatisfying(versions, this.params.version)
MaxSatisfying(versions, r) ==
    LET i == MaxSatisfyingIndex(versions, r)
    IN IF i = 0 THEN Null ELSE Str(versions[i])

\* a plausible slip: the tag test comes before the exact-version test
getResolvedVersionTagsFirst(metadata, version) ==
    LET versions == Candidates(metadata)
    IN IF metadata.tags.kind = "undefined" THEN Threw
       ELSE IF HasOwnProperty(metadata.tags, version) THEN TagValue(metadata.tags, version)
       ELSE IF Includes(metadata.versions, version) THEN Str(version)
       ELSE IF version = Latest \/ version = Empty
       THEN (IF Len(versions) > 0 THEN Str(versions[1]) ELSE Null)
       ELSE MaxSatisfying(versions, version)

\* The callback of getResolvedVersion. hasOwnProperty.call(undefined, ...) throws a
\* TypeError, which rejects the promise.
getResolvedVersion(metadata, version) ==
    LET versions == Candidates(metadata)
    IN IF Includes(metadata.versions, version) THEN Str(version)
       ELSE IF metadata.tags.kind = "undefined" THEN Threw
       ELSE IF HasOwnProperty(metadata.tags, version) THEN TagValue(metadata.tags, version)
       ELSE IF version = Latest \/ version = Empty
       THEN (IF Len(versions) > 0 THEN Str(versions[1]) ELSE Null)
       ELSE MaxSatisfying(versions, version)

(***************************************************************************)
(* The documents the two loaders build                                     *)
(***************************************************************************)
NoDocument == [tags |-> TagsUndefined, versions |-> <<>>]

\* a registry response: body is absent, or an object whose versions object (when
\* present) has the keys `versions`, in Object.keys order, and whose dist-tags
\* are `tags`
NoBody == [body |-> FALSE, hasVersions |-> FALSE, versions |-> <<>>, tags |-> TagsUndefined]

\* !response.body || !response.body.versions
NpmInvalid(response) == ~response.body \/ ~response.hasVersions

\* Object.keys(...).sort(semver.rcompare) calls the comparator on every element of
\* a list of two or more, and new SemVer() throws on a name that is no version
NpmSortThrows(response) ==
    /\ Len(response.versions) >= 2
    /\ \E i \in 1..Len(response.versions) : ~SemverValid(response.versions[i])

\* the document fetchNpmMetadata returns for a valid response
NpmDocument(response) ==
    [tags |-> response.tags, versions |-> SortRcompare(response.versions)]

\* vCompare.compare: semver order on semantic versions; a name that is no
\* semantic version is placed on the side `bias` of every semantic version,
\* and two such names compare as strings
VCompare(a, b, bias) ==
    IF SemverValid(a) /\ SemverValid(b) THEN SemverCompare(a, b)
    ELSE IF SemverValid(a) THEN 0 - bias
    ELSE IF SemverValid(b) THEN bias
    ELSE IF a = b THEN 0
    ELSE IF StringLess(a, b) THEN -1 ELSE 1

\* Array.prototype.sort(vCompare.rCompare): stable, descending
SortVRcompare(s, bias) ==
    LET ins(t, x) ==
            LET k == Cardinality({i \in 1..Len(t) : VCompare(x, t[i], bias) <= 0})
            IN SubSeq(t, 1, k) \o <<x>> \o SubSeq(t, k + 1, Len(t))
        f[i \in 0..Len(s)] == IF i = 0 THEN <<>> ELSE ins(f[i - 1], s[i])
    IN f[Len(s)]

\* _.uniq: the first occurrence of each element, in order
RECURSIVE Uniq(_)
Uniq(s) ==
    IF Len(s) = 0 THEN <<>>
    ELSE LET init == Uniq(SubSeq(s, 1, Len(s) - 1))
         IN IF Includes(init, s[Len(s)]) THEN init ELSE Append(init, s[Len(s)])

\* data.forEach(strip one leading "v"), _.map(data, 'name').filter(v => v)
RECURSIVE NormalizedNames(_)
NormalizedNames(data) ==
    IF Len(data) = 0 THEN <<>>
    ELSE IF StripV(data[1]) = Empty THEN NormalizedNames(Tail(data))
    ELSE <<StripV(data[1])>> \o NormalizedNames(Tail(data))

\* a plausible slip: the sorted names are not passed through _.uniq
GitHubDocumentWithDuplicates(data, bias) ==
    [tags |-> TagsArray, versions |-> SortVRcompare(NormalizedNames(data), bias)]

\* the document fetchGitHubMetadata returns for the listed tags
GitHubDocument(data, bias) ==
    [tags |-> TagsArray, versions |-> Uniq(SortVRcompare(NormalizedNames(data), bias))]

(***************************************************************************)
(* Bounds and configuration                                                *)
(***************************************************************************)
NumRequests == 2
MaxTime == 3
MaxEndpoints == 2
MaxVersions == 3
MaxTags == 2

\* v1Config.npm.maxAge and v1Config.gh.maxAge, in ticks of the model's clock
NpmMaxAge == 2
GhMaxAge == 1

Requests == 1..NumRequests
NoRequest == 0

\* `npm/${name}` and `gh/${user}/${repo}`, for the one package and the one
\* repository of the model
NpmKey == <<"npm", "/", "p">>
GhKey == <<"gh", "/", "u", "/", "r">>
NoKey == <<>>
Keys == {NpmKey, GhKey}

(***************************************************************************)
(* Upstream outcomes                                                       *)
(***************************************************************************)
\* what a rejected promise carries: class is the constructor (a got HTTPError
\* or TimeoutError, an octokit RequestError, a plain Error or TypeError, or the
\* plain object a loader handed to the cache), status is response.statusCode
\* (0 when there is no response), endpoint the index of the registry asked
Err(class, status, block, endpoint) ==
    [class |-> class, status |-> status, block |-> block, endpoint |-> endpoint]
NoErr == Err("none", 0, FALSE, 0)

Ok(doc) == [kind |-> "ok", doc |-> doc, err |-> NoErr]
Fail(err) == [kind |-> "err", doc |-> NoDocument, err |-> err]
NoResult == [kind |-> "none", doc |-> NoDocument, err |-> NoErr]

\* registry responses with status 200
FullResponse ==
    [body |-> TRUE, hasVersions |-> TRUE, versions |-> <<V199, V200>>,
     tags |-> TagsObject(Latest :> V200)]
NoVersionsResponse ==
    [body |-> TRUE, hasVersions |-> FALSE, versions |-> <<>>, tags |-> TagsUndefined]
NpmResponses == {FullResponse, NoVersionsResponse, NoBody}

\* how one got() to endpoint e ends
NpmFailures(e) ==
    {Err("HTTPError", 404, FALSE, e), Err("HTTPError", 500, FALSE, e),
     Err("TimeoutError", 0, FALSE, e)}

\* how githubApi.paginate() ends when it fails: error.status and error.block
GhFailures ==
    {Err("RequestError", 404, FALSE, 0), Err("RequestError", 403, TRUE, 0),
     Err("RequestError", 403, FALSE, 0), Err("RequestError", 500, FALSE, 0)}

\* the tag names a successful listing returns
GhListings == {<< <<"v">> \o V200, V199 >>}

(***************************************************************************)
(* State                                                                   *)
(***************************************************************************)
VARIABLES
    now,         \* the clock the cache reads
    sourceUrl,   \* v1Config.npm.sourceUrl: the number of configured registries
    fetchCache,  \* fetchCache: key -> entry
    req,         \* the requests being served: r -> [pc, key, waitOn, via, result];
                 \* via tells a result read from a settled entry ("hit") from one
                 \* delivered by a loader ("load")
    load,        \* the loader invocation request r started, if any
    upstream,    \* resolution: what the registry or GitHub answered
    metadata,    \* resolution: the document getMetadata() resolved with
    version,     \* resolution: this.params.version
    resolved,    \* resolution: what getResolvedVersion() settled with
    vBias,       \* the side on which vCompare places names that are no versions
    type,        \* file listing: this.params.type
    handler,     \* file listing: where handleVersionFiles stands
    packageListing,  \* file listing: the stored listing of the request's tuple
    ctx          \* file listing: the response handleVersionFiles has produced

cacheVars == <<now, sourceUrl, fetchCache, req, load>>
resolveVars == <<upstream, metadata, version, resolved>>
filesVars == <<type, handler, packageListing, ctx>>
vars == <<now, sourceUrl, fetchCache, req, load, upstream, metadata, version, resolved, vBias,
          type, handler, packageListing, ctx>>

AbsentEntry == [state |-> "absent", owner |-> NoRequest, value |-> NoResult, expiresAt |-> 0]
PendingEntry(r) == [state |-> "pending", owner |-> r, value |-> NoResult, expiresAt |-> 0]
SettledEntry(value, expiresAt) ==
    [state |-> "settled", owner |-> NoRequest, value |-> value, expiresAt |-> expiresAt]

NoOverride == [called |-> FALSE, value |-> NoResult, ttl |-> 0]
Override(value, ttl) == [called |-> TRUE, value |-> value, ttl |-> ttl]

NoLoad == [active |-> FALSE, key |-> NoKey, maxAge |-> 0, pending |-> {}, rejected |-> <<>>]

IdleRequest ==
    [pc |-> "idle", key |-> NoKey, waitOn |-> NoRequest, via |-> "none", result |-> NoResult]

(***************************************************************************)
(* The shared promise cache (lib/promise-cache-shared)                     *)
(***************************************************************************)
\* a settled entry is visible only while now < expiresAt
Visible(entry) == entry.state = "settled" /\ now < entry.expiresAt

\* get(key, loader, maxAge) by request r; `endpoints` are the fetches the
\* loader issues in its synchronous part when it is invoked
CacheGet(r, key, maxAge, endpoints) ==
    LET entry == fetchCache[key]
    IN /\ req[r].pc = "idle"
       /\ IF Visible(entry)
          THEN /\ req' = [req EXCEPT ![r] = [pc |-> "done", key |-> key, waitOn |-> NoRequest,
                                             via |-> "hit", result |-> entry.value]]
               /\ UNCHANGED <<fetchCache, load>>
          ELSE IF entry.state = "pending"
          THEN /\ req' = [req EXCEPT ![r] = [pc |-> "waiting", key |-> key,
                                             waitOn |-> entry.owner, via |-> "load",
                                             result |-> NoResult]]
               /\ UNCHANGED <<fetchCache, load>>
          ELSE /\ fetchCache' = [fetchCache EXCEPT ![key] = PendingEntry(r)]
               /\ load' = [load EXCEPT ![r] = [NoLoad EXCEPT !.active = TRUE, !.key = key,
                                                              !.maxAge = maxAge,
                                                              !.pending = endpoints]]
               /\ req' = [req EXCEPT ![r] = [pc |-> "waiting", key |-> key, waitOn |-> r,
                                             via |-> "load", result |-> NoResult]]

\* the loader that request r started settles with `outcome`, having called
\* override(value, ttl) or not: the entry is stored or dropped and every caller
\* waiting on this computation receives the outcome
CacheSettle(r, outcome, override) ==
    LET key == load[r].key
    IN /\ fetchCache' =
              [fetchCache EXCEPT ![key] =
                  IF override.called THEN SettledEntry(override.value, now + override.ttl)
                  ELSE IF outcome.kind = "ok" THEN SettledEntry(outcome, now + load[r].maxAge)
                  ELSE AbsentEntry]
       /\ load' = [load EXCEPT ![r] = NoLoad]
       /\ req' = [w \in Requests |->
                     IF req[w].pc = "waiting" /\ req[w].waitOn = r
                     THEN [req[w] EXCEPT !.pc = "done", !.waitOn = NoRequest,
                                         !.result = outcome]
                     ELSE req[w]]

(***************************************************************************)
(* fetchNpmMetadata                                                        *)
(***************************************************************************)
\* a plausible slip: the response is not validated
NpmLoaderResultUnvalidated(response) ==
    IF NpmSortThrows(response) THEN Fail(Err("TypeError", 0, FALSE, 0))
    ELSE Ok(NpmDocument(response))

\* what the loader settles with once a registry has answered with status 200
NpmLoaderResult(response) ==
    IF NpmInvalid(response) THEN Fail(Err("Error", 0, FALSE, 0))
    ELSE IF NpmSortThrows(response) THEN Fail(Err("TypeError", 0, FALSE, 0))
    ELSE Ok(NpmDocument(response))

\* a plausible slip: the last of the collected errors is thrown
NpmAnyRejectionLast(rejected) == rejected[Len(rejected)]

\* Bluebird.any(...).catch(e => { throw e[0] }): the AggregateError holds the
\* rejections in the order in which they arrived
NpmAnyRejection(rejected) == rejected[1]

\* a plausible slip: the 404 is rethrown without being handed to the cache
NpmOverrideNever(error, maxAge) == NoOverride

\* promise.catch: cache({ response: { statusCode } }) on a 404, without a TTL
NpmOverride(error, maxAge) ==
    IF error.status = 404
    THEN Override(Fail(Err("Object", error.status, FALSE, 0)), maxAge)
    ELSE NoOverride

\* a plausible slip: the loader runs without going through fetchCache.get
fetchNpmMetadataUncached(r) ==
    /\ req[r].pc = "idle"
    /\ load' = [load EXCEPT ![r] = [NoLoad EXCEPT !.active = TRUE, !.key = NpmKey,
                                                   !.maxAge = NpmMaxAge,
                                                   !.pending = 1..sourceUrl]]
    /\ req' = [req EXCEPT ![r] = [pc |-> "waiting", key |-> NpmKey, waitOn |-> r,
                                  via |-> "load", result |-> NoResult]]
    /\ UNCHANGED <<now, sourceUrl, fetchCache, resolveVars, vBias, filesVars>>

\* a plausible slip: the GitHub maxAge is passed for npm
fetchNpmMetadataWrongAge(r) ==
    /\ CacheGet(r, NpmKey, GhMaxAge, 1..sourceUrl)
    /\ UNCHANGED <<now, sourceUrl, resolveVars, vBias, filesVars>>

\* fetchNpmMetadata(name, maxAge) called by request r: fetchCache.get, and on
\* a miss one got() to every configured registry
fetchNpmMetadata(r) ==
    /\ CacheGet(r, NpmKey, NpmMaxAge, 1..sourceUrl)
    /\ UNCHANGED <<now, sourceUrl, resolveVars, vBias, filesVars>>

\* the got() to registry e is fulfilled: the first fulfilment wins the race
NpmFulfilled(r, e, response) ==
    /\ load[r].active /\ load[r].key = NpmKey /\ e \in load[r].pending
    /\ CacheSettle(r, NpmLoaderResult(response), NoOverride)
    /\ UNCHANGED <<now, sourceUrl, resolveVars, vBias, filesVars>>

\* the got() to registry e is rejected: the loader fails once all are
NpmRejected(r, e, err) ==
    /\ load[r].active /\ load[r].key = NpmKey /\ e \in load[r].pending
    /\ LET rejected == Append(load[r].rejected, err)
           pending == load[r].pending \ {e}
       IN IF pending = {}
          THEN LET error == NpmAnyRejection(rejected)
               IN CacheSettle(r, Fail(error), NpmOverride(error, load[r].maxAge))
          ELSE /\ load' = [load EXCEPT ![r].rejected = rejected, ![r].pending = pending]
               /\ UNCHANGED <<fetchCache, req>>
    /\ UNCHANGED <<now, sourceUrl, resolveVars, vBias, filesVars>>

(***************************************************************************)
(* fetchGitHubMetadata                                                     *)
(***************************************************************************)
GhLoaderResult(data, bias) == Ok(GitHubDocument(data, bias))

\* a plausible slip: every failure is handed to the cache
GhOverrideAlways(error, maxAge) ==
    Override(Fail(Err("Object", error.status, FALSE, 0)), maxAge * 2)

\* a plausible slip: the negative result is kept for maxAge, not twice that
GhOverrideSingleAge(error, maxAge) ==
    IF error.status = 404 \/ (error.status = 403 /\ error.block)
    THEN Override(Fail(Err("Object", error.status, FALSE, 0)), maxAge)
    ELSE NoOverride

\* a plausible slip: the negative result is stored without the response
GhOverrideDropsResponse(error, maxAge) ==
    IF error.status = 404 \/ (error.status = 403 /\ error.block)
    THEN Override(Fail(Err("Object", 0, FALSE, 0)), maxAge * 2)
    ELSE NoOverride

\* the catch handler: cache({ response: error.response }, maxAge * 2) on a 404
\* and on a 403 with error.block
GhOverride(error, maxAge) ==
    IF error.status = 404
    THEN Override(Fail(Err("Object", error.status, FALSE, 0)), maxAge * 2)
    ELSE IF error.status = 403 /\ error.block
    THEN Override(Fail(Err("Object", error.status, FALSE, 0)), maxAge * 2)
    ELSE NoOverride

\* a plausible slip: the loader runs without going through fetchCache.get
fetchGitHubMetadataUncached(r) ==
    /\ req[r].pc = "idle"
    /\ load' = [load EXCEPT ![r] = [NoLoad EXCEPT !.active = TRUE, !.key = GhKey,
                                                   !.maxAge = GhMaxAge, !.pending = {0}]]
    /\ req' = [req EXCEPT ![r] = [pc |-> "waiting", key |-> GhKey, waitOn |-> r,
                                  via |-> "load", result |-> NoResult]]
    /\ UNCHANGED <<now, sourceUrl, fetchCache, resolveVars, vBias, filesVars>>

\* fetchGitHubMetadata(user, repo, maxAge) called by request r: fetchCache.get,
\* and on a miss one paginated listing of the tags
fetchGitHubMetadata(r) ==
    /\ CacheGet(r, GhKey, GhMaxAge, {0})
    /\ UNCHANGED <<now, sourceUrl, resolveVars, vBias, filesVars>>

\* githubApi.paginate() is fulfilled with all the tags
GhFulfilled(r, data) ==
    /\ load[r].active /\ load[r].key = GhKey
    /\ CacheSettle(r, GhLoaderResult(data, vBias), NoOverride)
    /\ UNCHANGED <<now, sourceUrl, resolveVars, vBias, filesVars>>

\* githubApi.paginate() is rejected: error.response is set, the error rethrown
GhRejected(r, err) ==
    /\ load[r].active /\ load[r].key = GhKey
    /\ CacheSettle(r, Fail(err), GhOverride(err, load[r].maxAge))
    /\ UNCHANGED <<now, sourceUrl, resolveVars, vBias, filesVars>>

(***************************************************************************)
(* The environment: time passes, a served request leaves                   *)
(***************************************************************************)
Tick ==
    /\ now < MaxTime
    /\ now' = now + 1
    /\ UNCHANGED <<sourceUrl, fetchCache, req, load, resolveVars, vBias, filesVars>>

Respond(r) ==
    /\ req[r].pc = "done"
    /\ req' = [req EXCEPT ![r] = IdleRequest]
    /\ UNCHANGED <<now, sourceUrl, fetchCache, load, resolveVars, vBias, filesVars>>

NoUpstream == [type |-> "none", response |-> NoBody, data |-> <<>>]

\* no request is being served
CacheIdle ==
    /\ now = 0
    /\ fetchCache = [k \in Keys |-> AbsentEntry]
    /\ req = [r \in Requests |-> IdleRequest]
    /\ load = [r \in Requests |-> NoLoad]

\* the values stored by fetchFiles: the picked listing, or { status, message }
NoListing == [kind |-> "none", status |-> 0, files |-> <<>>]

\* no response yet: neither ctx.body nor ctx.status is set
NoResponse ==
    [kind |-> "none", status |-> 0, value |-> NoListing, via |-> "none",
     error |-> NoErr,
     during |-> "none"]

IdleHandler == [stage |-> "idle", validated |-> FALSE]

\* PackageListing.find() finds no row
NotStored == <<>>

\* handleVersionFiles is not running and no listing is stored
FilesIdle ==
    /\ handler = IdleHandler
    /\ packageListing = NotStored
    /\ ctx = NoResponse

\* no resolution is under way
ResolveIdle ==
    /\ upstream = NoUpstream
    /\ metadata = NoDocument
    /\ version = Empty
    /\ resolved = Pending
    /\ vBias = 1

(***************************************************************************)
(* Requests for the metadata of an npm package                             *)
(***************************************************************************)
InitNpm ==
    /\ CacheIdle
    /\ sourceUrl \in 1..MaxEndpoints
    /\ ResolveIdle
    /\ type = "npm"
    /\ FilesIdle

NextNpm ==
    \/ \E r \in Requests : fetchNpmMetadata(r)
    \/ \E r \in Requests, e \in 1..MaxEndpoints, response \in NpmResponses :
          NpmFulfilled(r, e, response)
    \/ \E r \in Requests, e \in 1..MaxEndpoints : \E err \in NpmFailures(e) :
          NpmRejected(r, e, err)
    \/ \E r \in Requests : Respond(r)
    \/ Tick

SpecNpm == InitNpm /\ [][NextNpm]_vars

(***************************************************************************)
(* Requests for the metadata of a GitHub repository                        *)
(***************************************************************************)
InitGitHub ==
    /\ CacheIdle
    /\ sourceUrl = 1
    /\ ResolveIdle
    /\ type = "gh"
    /\ FilesIdle

NextGitHub ==
    \/ \E r \in Requests : fetchGitHubMetadata(r)
    \/ \E r \in Requests, data \in GhListings : GhFulfilled(r, data)
    \/ \E r \in Requests, err \in GhFailures : GhRejected(r, err)
    \/ \E r \in Requests : Respond(r)
    \/ Tick

SpecGitHub == InitGitHub /\ [][NextGitHub]_vars

(***************************************************************************)
(* Resolving a version: getMetadata() and then getResolvedVersion()        *)
(***************************************************************************)
Fetched == [k |-> "fetched", s |-> <<>>, n |-> 0]
Rejected == [k |-> "rejected", s |-> <<>>, n |-> 0]

\* the sequences of at most n elements of S, and those without repetition
SeqsUpTo(S, n) == UNION {[1..m -> S] : m \in 0..n}
DistinctSeqsUpTo(S, n) == {q \in SeqsUpTo(S, n) : \A i, j \in 1..Len(q) : q[i] = q[j] => i = j}

\* the dist-tags a registry may send
DistTags ==
    {TagsUndefined, TagsObject(<<>>), TagsObject(Latest :> V200),
     TagsObject((Latest :> V199) @@ (Beta :> V100beta)), TagsObject(V199 :> V200)}

\* what the registry may answer with status 200
RegistryResponses ==
    {NoBody, NoVersionsResponse}
        \cup {[body |-> TRUE, hasVersions |-> TRUE, versions |-> q, tags |-> t] :
                 q \in DistinctSeqsUpTo(VersionNames, MaxVersions), t \in DistTags}

InitResolve ==
    /\ CacheIdle
    /\ sourceUrl = 1
    /\ FilesIdle
    /\ metadata = NoDocument
    /\ resolved = Pending
    /\ version \in Specifiers
    /\ \/ /\ vBias \in {-1, 1}
          /\ \E data \in SeqsUpTo(TagNames, MaxTags) :
                upstream = [type |-> "gh", response |-> NoBody, data |-> data]
          /\ type = "gh"
       \/ /\ vBias = 1
          /\ \E response \in RegistryResponses :
                upstream = [type |-> "npm", response |-> response, data |-> <<>>]
          /\ type = "npm"

\* what fetchMetadata() settles with for the upstream answer
LoaderResult ==
    IF upstream.type = "npm" THEN NpmLoaderResult(upstream.response)
    ELSE GhLoaderResult(upstream.data, vBias)

\* getMetadata() resolves: the callback of getResolvedVersion will run
MetadataResolves ==
    /\ resolved = Pending
    /\ LoaderResult.kind = "ok"
    /\ metadata' = LoaderResult.doc
    /\ resolved' = Fetched
    /\ UNCHANGED <<cacheVars, upstream, version, vBias, filesVars>>

\* getMetadata() rejects, and so does getResolvedVersion()
MetadataRejects ==
    /\ resolved = Pending
    /\ LoaderResult.kind = "err"
    /\ resolved' = Rejected
    /\ UNCHANGED <<cacheVars, upstream, metadata, version, vBias, filesVars>>

\* the callback of getResolvedVersion runs on the document
ResolveVersion ==
    /\ resolved = Fetched
    /\ resolved' = getResolvedVersion(metadata, version)
    /\ UNCHANGED <<cacheVars, upstream, metadata, version, vBias, filesVars>>

NextResolve == MetadataResolves \/ MetadataRejects \/ ResolveVersion

SpecResolve == InitResolve /\ [][NextResolve]_vars

(***************************************************************************)
(* Listing the tags of a repository: the loader of fetchGitHubMetadata     *)
(***************************************************************************)
MaxTagList == 3

V120 == <<"1", ".", "2", ".", "0">>
V110 == <<"1", ".", "1", ".", "0">>

\* the names tag.name may have in the listing GitHub returns
RawTagNames ==
    {<<"v">> \o V120, V110, V120, <<"v", "v">> \o V110, <<"v">>, Foo}

InitTags ==
    /\ CacheIdle
    /\ sourceUrl = 1
    /\ FilesIdle
    /\ metadata = NoDocument
    /\ resolved = Pending
    /\ version = Empty
    /\ vBias \in {-1, 1}
    /\ type = "gh"
    /\ \E data \in SeqsUpTo(RawTagNames, MaxTagList) :
          upstream = [type |-> "gh", response |-> NoBody, data |-> data]

NextTags == MetadataResolves

SpecTags == InitTags /\ [][NextTags]_vars

(***************************************************************************)
(* The file listing of a version: fetchFiles, getFilesAsJson, getFiles     *)
(***************************************************************************)
\* the default TTL of the cache, which fetchFiles leaves to apply by passing no
\* maxAge to get(), in ticks of the model's clock
DefaultMaxAge == 2

\* promiseRetry(..., { retries: 2 })
Retries == 2

\* the request slot of the cache that handleVersionFiles uses
Handler == 1

HexDigits ==
    {"0", "1", "2", "3", "4", "5", "6", "7", "8", "9", "a", "b", "c", "d", "e", "f"}

\* is-hexdigest(version, 'sha1'): forty hexadecimal digits
isSha(s) == Len(s) = 40 /\ AllIn(s, HexDigits)

Sha1 == [i \in 1..40 |-> IF i % 2 = 0 THEN "a" ELSE "9"]

\* this.params.version of a request for the files of a version
FileVersions == {V200, V100, Sha1}

\* encodeURIComponent on the characters of the model's strings: letters, digits
\* and - . are kept, ^ is escaped
RECURSIVE encodeURIComponent(_)
encodeURIComponent(s) ==
    IF Len(s) = 0 THEN <<>>
    ELSE (IF Head(s) = "^" THEN <<"%", "5", "E">> ELSE <<Head(s)>>)
             \o encodeURIComponent(Tail(s))

\* this.params.name
PackageName(t) == IF t = "npm" THEN <<"p">> ELSE <<"u", "/", "r">>

\* `${cdn}/${type}/${name}@${encodeURIComponent(version)}/+private-json`
FilesUrl(t, v) ==
    <<"cdn", "/", t, "/">> \o PackageName(t) \o <<"@">> \o encodeURIComponent(v)
        \o <<"/", "+private-json">>

\* _.pick(response.body, ['default', 'files']) of a listing the CDN returns
PickedListing == [kind |-> "listing", status |-> 0, files |-> << <<"/", "a">> >>]

\* { status: 403, message: error.response.body }
Forbidden == [kind |-> "negative", status |-> 403, files |-> <<>>]

\* how one got() of the listing ends when it fails
FilesFailures ==
    {Err("HTTPError", 403, FALSE, 0), Err("HTTPError", 404, FALSE, 0),
     Err("HTTPError", 500, FALSE, 0), Err("ParseError", 0, FALSE, 0),
     Err("TimeoutError", 0, FALSE, 0), Err("got.RequestError", 0, FALSE, 0)}

\* JSON.stringify and JSON.parse of a stored value: the text is not the value
JSONStringify(value) == <<"json", value>>
JSONParse(text) == text[2]

\* fetchFiles() called by request r: fetchCache.get(url, loader) and, on a
\* miss, the first got() of the listing
fetchFiles(r) ==
    /\ CacheGet(r, FilesUrl(type, version), DefaultMaxAge, {0})
    /\ UNCHANGED <<now, sourceUrl, resolveVars, vBias, filesVars>>

\* a got() of the listing is fulfilled
FilesFulfilled(r, body) ==
    /\ load[r].active /\ load[r].key = FilesUrl(type, version)
    /\ CacheSettle(r, Ok(body), NoOverride)
    /\ UNCHANGED <<now, sourceUrl, resolveVars, vBias, filesVars>>

\* what the catch handler of one attempt does with its error, `failed` earlier
\* attempts having been retried: "resolve", "retry" or "throw"
\* a plausible slip: a timeout is retried like a parse failure
FilesCatchRetriesTimeout(error, failed) ==
    IF error.class = "HTTPError" /\ error.status = 403 THEN "resolve"
    ELSE IF error.class \in {"ParseError", "TimeoutError"} /\ failed < Retries THEN "retry"
    ELSE "throw"

\* a plausible slip: a 403 is rethrown like any other HTTP error
FilesCatchThrows403(error, failed) ==
    IF error.class = "ParseError" /\ failed < Retries THEN "retry"
    ELSE "throw"

FilesCatch(error, failed) ==
    IF error.class = "HTTPError" /\ error.status = 403 THEN "resolve"
    ELSE IF error.class = "ParseError" /\ failed < Retries THEN "retry"
    ELSE "throw"

\* a got() of the listing is rejected
FilesRejected(r, err) ==
    /\ load[r].active /\ load[r].key = FilesUrl(type, version)
    /\ LET todo == FilesCatch(err, Len(load[r].rejected))
       IN IF todo = "resolve" THEN CacheSettle(r, Ok(Forbidden), NoOverride)
          ELSE IF todo = "retry"
          THEN /\ load' = [load EXCEPT ![r].rejected = Append(load[r].rejected, err)]
               /\ UNCHANGED <<fetchCache, req>>
          ELSE CacheSettle(r, Fail(err), NoOverride)
    /\ UNCHANGED <<now, sourceUrl, resolveVars, vBias, filesVars>>

(***************************************************************************)
(* handleVersionFiles, serving one request after the other                 *)
(***************************************************************************)
\* error.code of the errors of the model
Code(error) ==
    IF error.class = "TimeoutError" THEN "ETIMEDOUT"
    ELSE IF error.class = "got.RequestError" THEN "ECONNRESET"
    ELSE ""

\* the response records, besides what is sent, what it answers: the error that
\* reached handleVersionFiles, the lookup during which it did ("metadata" or
\* "files"), and whether the value came from a loader, a cache entry or the
\* stored listing (via)
\* ctx.body = { status, message }
Body(status, via, error, during) ==
    [kind |-> "body", status |-> status, value |-> NoListing, via |-> via,
     error |-> error, during |-> during]

\* ctx.status = status
Status(status, via, error, during) ==
    [kind |-> "status", status |-> status, value |-> NoListing, via |-> via,
     error |-> error, during |-> during]

\* ctx.body = await this.getFiles(): the body carries the status of the value
FilesBody(value, via) ==
    [kind |-> "files", status |-> value.status, value |-> value, via |-> via,
     error |-> NoErr, during |-> "files"]

\* the error leaves handleVersionFiles
Thrown(via, error, during) ==
    [kind |-> "throw", status |-> 0, value |-> NoListing, via |-> via,
     error |-> error, during |-> during]

\* responseFromRemoteError(error): the status of the body
responseFromRemoteError(error) ==
    IF error.status = 404 THEN 404
    ELSE IF error.class = "TimeoutError" \/ Code(error) = "ETIMEDOUT" THEN 504
    ELSE 502

\* a plausible slip: the catch around getFiles() maps like responseFromRemoteError
FilesErrorLikeRemoteError(error, via) ==
    Body(responseFromRemoteError(error), via, error, "files")

\* the catch around getFiles() in handleVersionFiles
FilesError(error, via) ==
    IF error.class \in {"got.RequestError", "TimeoutError"}
    THEN Status(IF Code(error) = "ETIMEDOUT" THEN 504 ELSE 502, via, error, "files")
    ELSE IF error.class = "HTTPError"
    THEN Body(IF error.status # 0 THEN error.status ELSE 502, via, error, "files")
    ELSE Thrown(via, error, "files")

\* a plausible slip: the version is not looked up in the document
VersionKnownAlways(doc) == TRUE

\* metadata.versions.includes(this.params.version)
VersionKnown(doc) == Includes(doc.versions, version)

\* getFiles(): the parsed listing (the shaping of files into a tree is left out)
getFiles(listing) == JSONParse(listing)

\* a request arrives: the version is validated unless it is a commit hash
handleVersionFiles ==
    /\ handler.stage \in {"idle", "responded"}
    /\ handler' = [stage |-> IF type # "gh" \/ ~isSha(version) THEN "metadata" ELSE "files",
                   validated |-> FALSE]
    /\ ctx' = NoResponse
    /\ metadata' = NoDocument
    /\ UNCHANGED <<cacheVars, upstream, version, resolved, vBias, type, packageListing>>

\* getMetadata(): fetchMetadata() by this.params.type
getMetadata ==
    /\ handler.stage = "metadata"
    /\ IF type = "npm" THEN fetchNpmMetadata(Handler) ELSE fetchGitHubMetadata(Handler)

\* await this.getMetadata() returns or throws
MetadataReturns ==
    /\ handler.stage = "metadata"
    /\ req[Handler].pc = "done"
    /\ LET result == req[Handler].result
           via == req[Handler].via
       IN IF result.kind = "err"
          THEN /\ ctx' = Body(responseFromRemoteError(result.err), via, result.err, "metadata")
               /\ handler' = [stage |-> "responded", validated |-> FALSE]
               /\ metadata' = metadata
          ELSE IF ~VersionKnown(result.doc)
          THEN /\ ctx' = Body(404, via, NoErr, "metadata")
               /\ handler' = [stage |-> "responded", validated |-> FALSE]
               /\ metadata' = result.doc
          ELSE /\ ctx' = ctx
               /\ handler' = [stage |-> "files", validated |-> TRUE]
               /\ metadata' = result.doc
    /\ req' = [req EXCEPT ![Handler] = IdleRequest]
    /\ UNCHANGED <<now, sourceUrl, fetchCache, load, upstream, version, resolved, vBias,
                   type, packageListing>>

\* a plausible slip: the stored listing is not looked up
FindListingNever ==
    /\ handler.stage = "files"
    /\ handler' = [handler EXCEPT !.stage = "fetch"]
    /\ UNCHANGED <<cacheVars, resolveVars, vBias, type, packageListing, ctx>>

\* a plausible slip: a stored negative result is not served
FindListingSkipsNegative ==
    /\ handler.stage = "files"
    /\ IF packageListing # NotStored /\ JSONParse(packageListing).status = 0
       THEN /\ ctx' = FilesBody(getFiles(packageListing), "store")
            /\ handler' = [handler EXCEPT !.stage = "responded"]
       ELSE /\ ctx' = ctx
            /\ handler' = [handler EXCEPT !.stage = "fetch"]
    /\ UNCHANGED <<cacheVars, resolveVars, vBias, type, packageListing>>

\* getFilesAsJson(): PackageListing.find(props), and the stored listing
\* returned if there is one
FindListing ==
    /\ handler.stage = "files"
    /\ IF packageListing # NotStored
       THEN /\ ctx' = FilesBody(getFiles(packageListing), "store")
            /\ handler' = [handler EXCEPT !.stage = "responded"]
       ELSE /\ ctx' = ctx
            /\ handler' = [handler EXCEPT !.stage = "fetch"]
    /\ UNCHANGED <<cacheVars, resolveVars, vBias, type, packageListing>>

\* getFilesAsJson(): await this.fetchFiles()
FetchListing ==
    /\ handler.stage = "fetch"
    /\ fetchFiles(Handler)

\* fetchFiles() returns or throws: the listing is stringified and inserted, a
\* failed insert being ignored, and handleVersionFiles responds
FilesReturns ==
    /\ handler.stage = "fetch"
    /\ req[Handler].pc = "done"
    /\ LET result == req[Handler].result
           via == req[Handler].via
       IN IF result.kind = "ok"
          THEN LET listing == JSONStringify(result.doc)
               IN /\ packageListing' \in {listing, packageListing}
                  /\ ctx' = FilesBody(getFiles(listing), via)
          ELSE /\ packageListing' = packageListing
               /\ ctx' = FilesError(result.err, via)
    /\ handler' = [handler EXCEPT !.stage = "responded"]
    /\ req' = [req EXCEPT ![Handler] = IdleRequest]
    /\ UNCHANGED <<now, sourceUrl, fetchCache, load, resolveVars, vBias, type>>

InitFiles ==
    /\ now = 0
    /\ sourceUrl = 1
    /\ type \in {"npm", "gh"}
    /\ version \in FileVersions
    /\ fetchCache = [k \in Keys \cup {FilesUrl(type, version)} |-> AbsentEntry]
    /\ req = [r \in Requests |-> IdleRequest]
    /\ load = [r \in Requests |-> NoLoad]
    /\ upstream = NoUpstream
    /\ metadata = NoDocument
    /\ resolved = Pending
    /\ vBias = 1
    /\ FilesIdle

NextFiles ==
    \/ handleVersionFiles
    \/ getMetadata
    \/ \E response \in NpmResponses : NpmFulfilled(Handler, 1, response)
    \/ \E err \in NpmFailures(1) : NpmRejected(Handler, 1, err)
    \/ \E data \in GhListings : GhFulfilled(Handler, data)
    \/ \E err \in GhFailures : GhRejected(Handler, err)
    \/ MetadataReturns
    \/ FindListing
    \/ FetchListing
    \/ FilesFulfilled(Handler, PickedListing)
    \/ \E err \in FilesFailures : FilesRejected(Handler, err)
    \/ FilesReturns
    \/ Tick

SpecFiles == InitFiles /\ [][NextFiles]_vars

\* every got() of the listing ends: it is fulfilled, rejected, or timed out
\* after 30 seconds, and promiseRetry starts the next attempt from a timer
FilesAttemptEnds ==
    \/ FilesFulfilled(Handler, PickedListing)
    \/ \E err \in FilesFailures : FilesRejected(Handler, err)

SpecFilesFair == InitFiles /\ [][NextFiles]_vars /\ WF_vars(FilesAttemptEnds)

(***************************************************************************)
(* Properties of version resolution (checked under SpecResolve)            *)
(***************************************************************************)
\* the callback of getResolvedVersion has run
Settled == resolved.k \in {"str", "null", "num", "throw"}

\* the exact-version test and the tag test were both made and both failed
NeitherVersionNorTag ==
    /\ ~Includes(metadata.versions, version)
    /\ metadata.tags.kind # "undefined"
    /\ ~HasOwnProperty(metadata.tags, version)

Elements(q) == {q[i] : i \in 1..Len(q)}

\* resolved is the highest element of the set `matching`, or null when the
\* set is empty
HighestOf(matching) ==
    IF matching = {} THEN resolved = Null
    ELSE /\ resolved.k = "str"
         /\ resolved.s \in matching
         /\ \A d \in matching : SemverCompare(d, resolved.s) <= 0

\* the range the specifier denotes accepts c
Accepts(c) == SemverRange(version).valid /\ RangeTest(SemverRange(version), c)

\* C6: a specifier that is an element of doc.versions is returned unchanged,
\* whether or not it is a pre-release or a tag key; otherwise a specifier that
\* is a key of doc.tags resolves to doc.tags[spec], whatever the 'latest' rule
\* or the range rule would give.
C6_Precedence ==
    Settled =>
        /\ Includes(metadata.versions, version) => resolved = Str(version)
        /\ (/\ ~Includes(metadata.versions, version)
            /\ metadata.tags.kind # "undefined"
            /\ HasOwnProperty(metadata.tags, version))
              => resolved = TagValue(metadata.tags, version)

\* C6 witness: the specifier is a version and also a tag that points elsewhere
C6_Witness ==
    /\ Settled
    /\ Includes(metadata.versions, version)
    /\ metadata.tags.kind = "object"
    /\ version \in DOMAIN metadata.tags.map
    /\ metadata.tags.map[version] # version
    /\ resolved = Str(version)

ExampleDocument ==
    [tags |-> TagsObject(Latest :> V200), versions |-> <<V200, V199, V100beta>>]

\* C8 as claimed: on the example document the empty specifier and "latest"
\* give "2.0.0", "1.9.9" gives "1.9.9" and the range "^1.0.0" gives null.
C8_AsClaimed ==
    (Settled /\ metadata = ExampleDocument) =>
        /\ version = Empty => resolved = Str(V200)
        /\ version = Latest => resolved = Str(V200)
        /\ version = V199 => resolved = Str(V199)
        /\ version = Caret100 => resolved = Null

\* C8 amended: on the example document the empty specifier and "latest" give
\* "2.0.0", "1.9.9" gives "1.9.9", and the range "^1.0.0" gives "1.9.9", the
\* highest release in [1.0.0, 2.0.0).
C8_Example ==
    (Settled /\ metadata = ExampleDocument) =>
        /\ version = Empty => resolved = Str(V200)
        /\ version = Latest => resolved = Str(V200)
        /\ version = V199 => resolved = Str(V199)
        /\ version = Caret100 => resolved = Str(V199)

\* C8 witness: the range "^1.0.0" has been resolved on the example document
C8_Witness ==
    /\ metadata = ExampleDocument
    /\ version = Caret100
    /\ resolved = Str(V199)

\* C9 as claimed: on every document a loader returns and for every specifier,
\* resolution does not fail and gives null or a version string that is an
\* element of doc.versions or a value of doc.tags.
C9_TotalAndClosed ==
    resolved.k \notin {"pending", "fetched", "rejected"} =>
        \/ resolved = Null
        \/ /\ resolved.k = "str"
           /\ \/ resolved.s \in Elements(metadata.versions)
              \/ /\ metadata.tags.kind = "object"
                 /\ \E key \in DOMAIN metadata.tags.map : metadata.tags.map[key] = resolved.s

(***************************************************************************)
(* Properties of the cached loaders (checked under SpecNpm and SpecGitHub) *)
(***************************************************************************)
\* the steps of a behaviour: request r calls get, the loader r started settles
GetStep(r) == req[r].pc = "idle" /\ req'[r].pc # "idle"
SettleStep(r) == load[r].active /\ ~load'[r].active

ActiveLoads(k) == {r \in Requests : load[r].active /\ load[r].key = k}
WaitersOn(r) == {w \in Requests : req[w].pc = "waiting" /\ req[w].waitOn = r}

\* at most one loader is in flight per key, registered as the pending entry,
\* and every waiting caller waits on it
OneLoadPerKey ==
    /\ \A k \in Keys :
          /\ Cardinality(ActiveLoads(k)) <= 1
          /\ \A r \in ActiveLoads(k) : fetchCache[k] = PendingEntry(r)
          /\ fetchCache[k].state = "pending" => fetchCache[k].owner \in ActiveLoads(k)
    /\ \A w \in Requests :
          req[w].pc = "waiting" => req[w].waitOn \in ActiveLoads(req[w].key)

\* a get that finds the key pending starts no loader; when a loader settles,
\* all its callers are served with the one outcome
SharedOutcome ==
    /\ \A r \in Requests :
          (GetStep(r) /\ fetchCache[req'[r].key].state = "pending") =>
              /\ load' = load
              /\ req'[r].pc = "waiting"
              /\ req'[r].waitOn = fetchCache[req'[r].key].owner
    /\ \A r \in Requests :
          SettleStep(r) =>
              \A w \in WaitersOn(r) :
                  /\ req'[w].pc = "done"
                  /\ req'[w].result = req'[r].result
                  /\ req'[w].result.kind # "none"

\* C1: single-flight. In every state at most one loader is in flight per key
\* and it is registered as pending; concurrent gets of one key invoke the
\* loader once and all of them receive the same outcome.
C1_SingleFlight == []OneLoadPerKey /\ [][SharedOutcome]_vars

\* C1 witness: two requests have been served by a loader with the same document
\* at a time when a second loader could not have run (a stored success is still
\* visible)
C1_Witness ==
    \E r1, r2 \in Requests :
        /\ r1 # r2
        /\ req[r1].pc = "done" /\ req[r2].pc = "done"
        /\ req[r1].via = "load" /\ req[r2].via = "load"
        /\ req[r1].result.kind = "ok" /\ req[r2].result = req[r1].result
        /\ now = 0

\* the failures of the tag listing that the loader hands to the cache
GhNegative(err) == err.status = 404 \/ (err.status = 403 /\ err.block)

\* a get that finds no entry, or an expired one, invokes the loader
MissLoads(r) ==
    (GetStep(r) /\ fetchCache[req'[r].key].state # "pending" /\ ~Visible(fetchCache[req'[r].key]))
        => /\ load'[r].active
           /\ load'[r].key = req'[r].key
           /\ fetchCache'[req'[r].key] = PendingEntry(r)

\* a get that finds a visible entry returns its value and invokes no loader
HitReturns(r) ==
    (GetStep(r) /\ Visible(fetchCache[req'[r].key]))
        => /\ req'[r].pc = "done"
           /\ req'[r].result = fetchCache[req'[r].key].value
           /\ load' = load
           /\ fetchCache' = fetchCache

\* C2: a tag listing that fails with anything but a 404 or a blocked 403 (the
\* loader then calls no override) leaves no entry for the key, its failure is
\* delivered to every caller waiting on it, and the next get invokes the
\* loader again.
C2_FailureNotStored ==
    [][\A r \in Requests :
          /\ (SettleStep(r) /\ req'[r].result.kind = "err" /\ ~GhNegative(req'[r].result.err))
                => /\ fetchCache'[GhKey] = AbsentEntry
                   /\ \A w \in WaitersOn(r) :
                         req'[w].pc = "done" /\ req'[w].result = req'[r].result
          /\ MissLoads(r)]_vars

\* C2 witness: a request holds the 500 its loader failed with while another
\* request's loader is already running for the same key
C2_Witness ==
    \E r1, r2 \in Requests :
        /\ req[r1].pc = "done" /\ req[r1].via = "load"
        /\ req[r1].result.kind = "err" /\ req[r1].result.err.status = 500
        /\ load[r2].active /\ load[r2].key = req[r1].key

\* C3: a tag listing that fails with a 404 or a blocked 403 has called
\* override(negative, ttl): the negative result is stored until now + ttl, every
\* get before that returns it without invoking the loader, and a get at or
\* after that time invokes the loader again.
C3_OverridePersists ==
    [][\A r \in Requests :
          /\ (SettleStep(r) /\ req'[r].result.kind = "err" /\ GhNegative(req'[r].result.err))
                => /\ fetchCache'[GhKey].state = "settled"
                   /\ fetchCache'[GhKey].value.kind = "err"
                   /\ fetchCache'[GhKey].value.err.status = req'[r].result.err.status
                   /\ fetchCache'[GhKey].expiresAt = now + 2 * GhMaxAge
          /\ HitReturns(r)
          /\ MissLoads(r)]_vars

\* C3 witness: a request holds the negative result it read from the entry while
\* the loader runs again, the entry having expired
C3_Witness ==
    \E r1, r2 \in Requests :
        /\ req[r1].pc = "done" /\ req[r1].via = "hit"
        /\ req[r1].result.kind = "err" /\ req[r1].result.err.class = "Object"
        /\ load[r2].active /\ load[r2].key = req[r1].key

\* C4: a success is stored for the key until now + maxAge; every get before
\* that returns the stored document without invoking the loader, and a get at
\* or after that time treats the entry as absent and invokes the loader again,
\* the entry becoming a fresh pending one.
C4_TtlExpiry ==
    [][\A r \in Requests :
          /\ (SettleStep(r) /\ req'[r].result.kind = "ok")
                => fetchCache'[NpmKey] = SettledEntry(req'[r].result, now + NpmMaxAge)
          /\ HitReturns(r)
          /\ MissLoads(r)]_vars

\* C4 witness: a request holds the document it read from the entry while the
\* loader runs again, the entry having expired
C4_Witness ==
    \E r1, r2 \in Requests :
        /\ req[r1].pc = "done" /\ req[r1].via = "hit"
        /\ req[r1].result.kind = "ok"
        /\ load[r2].active /\ load[r2].key = req[r1].key
        /\ fetchCache[NpmKey] = PendingEntry(r2)

\* a failure of the race of registry fetches (not one thrown after it)
RaceFailure(result) ==
    result.kind = "err" /\ result.err.class \in {"HTTPError", "TimeoutError"}

\* a running npm loader has asked every configured registry once
AskedEveryEndpoint ==
    \A r \in Requests :
        load[r].active =>
            /\ load[r].pending \cup {load[r].rejected[i].endpoint : i \in 1..Len(load[r].rejected)}
                  = 1..sourceUrl
            /\ \A i \in 1..Len(load[r].rejected) : load[r].rejected[i].endpoint \notin load[r].pending

\* C5 as claimed: one fetch goes to every endpoint, and when every endpoint
\* fails the propagated failure is that of the first endpoint in configuration
\* order, whatever the order in which the failures arrive.
C5_AsClaimed ==
    /\ AskedEveryEndpoint
    /\ \A r \in Requests :
          (req[r].pc = "done" /\ req[r].via = "load" /\ RaceFailure(req[r].result))
              => req[r].result.err.endpoint = 1

\* C5 amended: one fetch goes to every endpoint; the loader fails with a
\* registry's failure only once every endpoint has failed (a fulfilment settles
\* it before), and the failure propagated is then the one that arrived first,
\* whichever endpoint it belongs to.
C5_FirstArrival ==
    /\ []AskedEveryEndpoint
    /\ [][\A r \in Requests :
             (SettleStep(r) /\ RaceFailure(req'[r].result)) =>
                 /\ Cardinality(load[r].pending) = 1
                 /\ IF Len(load[r].rejected) > 0
                    THEN req'[r].result.err = load[r].rejected[1]
                    ELSE req'[r].result.err.endpoint \in load[r].pending]_vars

\* C5 witness: with several registries configured, all have failed and the
\* failure propagated is not the first-configured registry's
C5_Witness ==
    \E r \in Requests :
        /\ sourceUrl > 1
        /\ req[r].pc = "done" /\ req[r].via = "load"
        /\ RaceFailure(req[r].result)
        /\ req[r].result.err.endpoint # 1

\* C10: a 404 of the tag listing stores a negative result under the
\* repository's key for 2 x maxAge, and so does a 403 that carries the blocked
\* signal; a 403 without it stores nothing, so that the next call lists the
\* tags again. In all three cases every caller of the current computation
\* fails with the listing's error.
C10_GitHubFailurePolicy ==
    [][\A r \in Requests :
          /\ (SettleStep(r) /\ req'[r].result.kind = "err") =>
                LET err == req'[r].result.err
                    negative == SettledEntry(Fail(Err("Object", err.status, FALSE, 0)),
                                            now + 2 * GhMaxAge)
                IN /\ err.status = 404 => fetchCache'[GhKey] = negative
                   /\ (err.status = 403 /\ err.block) => fetchCache'[GhKey] = negative
                   /\ (err.status = 403 /\ ~err.block) => fetchCache'[GhKey] = AbsentEntry
                   /\ err.class = "RequestError"
                   /\ fetchCache'[NpmKey] = fetchCache[NpmKey]
                   /\ \A w \in WaitersOn(r) :
                         req'[w].pc = "done" /\ req'[w].result = Fail(err)
          /\ (GetStep(r) /\ fetchCache[GhKey] = AbsentEntry) =>
                load'[r] = [NoLoad EXCEPT !.active = TRUE, !.key = GhKey,
                                          !.maxAge = GhMaxAge, !.pending = {0}]]_vars

\* C10 witness: a request failed with a blocked 403 and the negative result is
\* stored under the repository's key
C10_Witness ==
    \E r \in Requests :
        /\ req[r].pc = "done" /\ req[r].via = "load"
        /\ req[r].result.kind = "err"
        /\ req[r].result.err.status = 403 /\ req[r].result.err.block
        /\ fetchCache[GhKey].state = "settled"
        /\ fetchCache[GhKey].value = Fail(Err("Object", 403, FALSE, 0))

(***************************************************************************)
(* Properties of the npm loader's failures (checked under SpecNpm)         *)
(***************************************************************************)
\* the plain object the npm loader hands to the cache on a 404
NpmNotFound == Fail(Err("Object", 404, FALSE, 0))

\* C11: when the failure of the registry race (of the only registry, or the one
\* propagated from several) is a 404, a not-found result is stored under
\* npm/<name> until now + maxAge and any other race failure stores nothing;
\* every get before that time fails with the stored not-found result and
\* starts no fetch, and a get at or after it invokes the loader again.
C11_NpmNegativeCaching ==
    [][\A r \in Requests :
          /\ (SettleStep(r) /\ RaceFailure(req'[r].result)) =>
                IF req'[r].result.err.status = 404
                THEN fetchCache'[NpmKey] = SettledEntry(NpmNotFound, now + NpmMaxAge)
                ELSE fetchCache'[NpmKey] = AbsentEntry
          /\ (GetStep(r) /\ Visible(fetchCache[NpmKey]) /\ fetchCache[NpmKey].value.kind = "err")
                => /\ req'[r].pc = "done"
                   /\ req'[r].result = NpmNotFound
                   /\ load' = load
          /\ HitReturns(r)
          /\ MissLoads(r)]_vars

\* C11 witness: with several registries configured, a request holds the
\* not-found result it read from the entry while, the entry having expired,
\* another request's loader fetches again
C11_Witness ==
    \E r1, r2 \in Requests :
        /\ sourceUrl > 1
        /\ req[r1].pc = "done" /\ req[r1].via = "hit"
        /\ req[r1].result = NpmNotFound
        /\ load[r2].active /\ load[r2].key = NpmKey
        /\ fetchCache[NpmKey] = PendingEntry(r2)

\* C15: a document is delivered only for a response that has a body with a
\* versions collection; for any other winning response every caller fails with
\* the validation Error, no fetch of the computation stays in flight, nothing
\* is stored under npm/<name>, and the next get invokes the loader again.
C15_ValidationFailure ==
    [][\A r \in Requests :
          /\ (SettleStep(r) /\ req'[r].result.kind = "ok")
                => req'[r].result.doc = NpmDocument(FullResponse)
          /\ (SettleStep(r) /\ req'[r].result.kind = "err" /\ req'[r].result.err.class = "Error")
                => /\ fetchCache'[NpmKey] = AbsentEntry
                   /\ load'[r] = NoLoad
                   /\ \A q \in Requests : ~(load'[q].active /\ load'[q].key = NpmKey)
                   /\ \A w \in WaitersOn(r) :
                         req'[w].pc = "done" /\ req'[w].result = req'[r].result
          /\ MissLoads(r)]_vars

\* C15 witness: a request holds the validation Error its loader failed with
\* while another request's loader is fetching for the same key
C15_Witness ==
    \E r1, r2 \in Requests :
        /\ req[r1].pc = "done" /\ req[r1].via = "load"
        /\ req[r1].result = Fail(Err("Error", 0, FALSE, 0))
        /\ load[r2].active /\ load[r2].key = NpmKey
        /\ fetchCache[NpmKey] = PendingEntry(r2)

(***************************************************************************)
(* Properties of the tag listing (checked under SpecTags)                  *)
(***************************************************************************)
\* the name with one leading "v" removed, if it has one
WithoutLeadingV(name) ==
    IF Len(name) > 0 /\ Head(name) = "v" THEN SubSeq(name, 2, Len(name)) ELSE name

Occurrences(q, x) == Cardinality({i \in 1..Len(q) : q[i] = x})

\* the returned names are normalized names of the listing, in descending
\* order of the comparison, and the tags collection is empty
NormalizedDescending ==
    /\ \A j \in 1..Len(metadata.versions) :
          \E i \in 1..Len(upstream.data) :
              metadata.versions[j] = WithoutLeadingV(upstream.data[i])
    /\ \A i, j \in 1..Len(metadata.versions) :
          i < j => VCompare(metadata.versions[i], metadata.versions[j], vBias) >= 0
    /\ metadata.tags = TagsArray

\* C13 as claimed: once the listing has been turned into a document, every
\* normalized name of the listing occurs exactly once in versions.
C13_AsClaimed ==
    resolved = Fetched =>
        /\ NormalizedDescending
        /\ \A i \in 1..Len(upstream.data) :
              Occurrences(metadata.versions, WithoutLeadingV(upstream.data[i])) = 1

\* C13 amended: once the listing has been turned into a document, versions
\* holds the names of the listing with exactly one leading "v" removed, in
\* descending order of the comparison; every normalized name that is not
\* empty occurs exactly once, a name that normalizes to the empty string (the
\* tag "v") does not occur, and tags is empty. The listing
\* ["v1.2.0", "1.1.0", "v1.2.0"] gives ["1.2.0", "1.1.0"].
C13_TagNormalization ==
    resolved = Fetched =>
        /\ NormalizedDescending
        /\ \A i \in 1..Len(upstream.data) :
              Occurrences(metadata.versions, WithoutLeadingV(upstream.data[i]))
                  = IF WithoutLeadingV(upstream.data[i]) = Empty THEN 0 ELSE 1
        /\ upstream.data = << <<"v">> \o V120, V110, <<"v">> \o V120 >>
              => metadata.versions = <<V120, V110>>

\* C13 witness: the listing of the example, with the tag "v" in place of the
\* repeated one, has been turned into the document of the two versions
C13_Witness ==
    /\ resolved = Fetched
    /\ upstream.data = << <<"v">> \o V120, V110, <<"v">> >>
    /\ metadata.versions = <<V120, V110>>

(***************************************************************************)
(* Properties of the file listing (checked under SpecFiles, SpecFilesFair) *)
(***************************************************************************)
\* the loader of fetchFiles is running for request r
FilesLoad(r) == load[r].active /\ load[r].key = FilesUrl(type, version)

\* the loader of fetchFiles that request r started settles in this step
FilesSettleStep(r) == FilesLoad(r) /\ ~load'[r].active

\* the attempts made so far by the running loader: the failed ones and the
\* one in flight
Attempts(r) == Len(load[r].rejected) + 1

AttemptsBounded == \A r \in Requests : FilesLoad(r) => Attempts(r) <= Retries + 1

\* a further attempt follows a parse failure only, and the load fails with a
\* parse failure only when that was its third
RetryOnlyAfterParseFailure ==
    \A r \in Requests :
        /\ (FilesLoad(r) /\ load'[r].active /\ load'[r] # load[r])
              => /\ load'[r].rejected
                       = Append(load[r].rejected, Err("ParseError", 0, FALSE, 0))
                 /\ fetchCache' = fetchCache
                 /\ req' = req
        /\ (FilesSettleStep(r) /\ req'[r].result.kind = "err")
              => /\ req'[r].result.err \in FilesFailures
                 /\ req'[r].result.err.class = "ParseError" => Attempts(r) = Retries + 1
                 /\ fetchCache'[load[r].key] = AbsentEntry

\* a running load of the listing settles
LoadSettles == \A r \in Requests : FilesLoad(r) ~> ~load[r].active

\* C12 as claimed: at most three attempts, retried after parse failures only,
\* always settling, and every attempt that ends with an HTTP error status fails
\* the load, so that a load succeeds only with a listing the CDN returned.
C12_AsClaimed ==
    /\ []AttemptsBounded
    /\ [][RetryOnlyAfterParseFailure
            /\ \A r \in Requests :
                  (FilesSettleStep(r) /\ req'[r].result.kind = "ok")
                      => req'[r].result.doc = PickedListing]_vars
    /\ LoadSettles

\* C12 amended: one load of the listing makes at most three attempts and
\* always settles; a further attempt follows a parse failure only; a timeout or
\* an HTTP error status other than 403 fails the load at once, a 403 settles it
\* at once with the structured negative result, and the third parse failure
\* in a row fails it.
C12_BoundedRetry ==
    /\ []AttemptsBounded
    /\ [][RetryOnlyAfterParseFailure
            /\ \A r \in Requests :
                  (FilesSettleStep(r) /\ req'[r].result.kind = "ok")
                      => req'[r].result.doc \in {PickedListing, Forbidden}]_vars
    /\ LoadSettles

\* C12 witness: the load has failed with the parse failure of its third
\* attempt, which left handleVersionFiles uncaught
C12_Witness ==
    /\ handler.stage = "responded"
    /\ ctx.kind = "throw"
    /\ ctx.error.class = "ParseError"
    /\ ctx.via = "load"

\* C16: an attempt that ends with HTTP 403 never fails the load: the load
\* settles at once as a success with { status: 403, message }, the cache stores
\* that value like any success until now + the default TTL, and a fetchFiles
\* of the same URL before that time returns the stored value and makes no
\* network call.
C16_ForbiddenIsCached ==
    [][\A r \in Requests :
          /\ (FilesSettleStep(r) /\ req'[r].result.kind = "err")
                => req'[r].result.err # Err("HTTPError", 403, FALSE, 0)
          /\ (FilesSettleStep(r) /\ req'[r].result.kind = "ok")
                => fetchCache'[load[r].key]
                       = SettledEntry(req'[r].result, now + DefaultMaxAge)
          /\ (GetStep(r) /\ req'[r].key = FilesUrl(type, version))
                => /\ HitReturns(r)
                   /\ MissLoads(r)]_vars

\* C16 witness: fetchFiles has returned the structured 403 from the cache entry
\* of the URL
C16_Witness ==
    /\ req[Handler].pc = "done"
    /\ req[Handler].key = FilesUrl(type, version)
    /\ req[Handler].via = "hit"
    /\ req[Handler].result = Ok(Forbidden)

\* the steps of getFilesAsJson: the result of PackageListing.find() is acted
\* on, and fetchFiles() has returned or thrown
FindStep == handler.stage = "files" /\ handler'.stage # "files"
ReturnStep == handler.stage = "fetch" /\ handler'.stage = "responded"

\* C17: the stored listing of the tuple is consulted before any fetch: if
\* there is one it is returned and neither the cache nor the network is asked;
\* fetchFiles is called only when there is none; the store is written only
\* with the listing a fetch resolved with, and whether or not that write
\* succeeds the fetched listing is what is returned.
C17_StoreBeforeFetch ==
    [][/\ (FindStep /\ packageListing # NotStored)
             => /\ ctx' = FilesBody(JSONParse(packageListing), "store")
                /\ handler'.stage = "responded"
                /\ req' = req /\ load' = load /\ fetchCache' = fetchCache
       /\ (FindStep /\ packageListing = NotStored) => handler'.stage = "fetch"
       /\ (GetStep(Handler) /\ req'[Handler].key = FilesUrl(type, version))
             => /\ handler.stage = "fetch"
                /\ packageListing = NotStored
       /\ (ReturnStep /\ req[Handler].result.kind = "ok")
             => /\ ctx'.kind = "files"
                /\ ctx'.value = req[Handler].result.doc
                /\ packageListing' \in {NotStored, JSONStringify(req[Handler].result.doc)}
       /\ packageListing' # packageListing
             => ReturnStep /\ req[Handler].result.kind = "ok"]_vars

\* C17 witness: a request has been answered with the listing an earlier
\* request fetched and stored, while the cache holds no visible entry for the
\* URL
C17_Witness ==
    /\ handler.stage = "responded"
    /\ ctx = FilesBody(PickedListing, "store")
    /\ packageListing = JSONStringify(PickedListing)
    /\ ~Visible(fetchCache[FilesUrl(type, version)])

\* a stored negative result stays, and while it is stored no fetch of the
\* listing is under way
NegativeStays ==
    packageListing = JSONStringify(Forbidden) =>
        /\ handler.stage # "fetch"
        /\ \A r \in Requests : ~FilesLoad(r)

\* C18: what fetchFiles resolves with is what is written, the structured 403
\* included; a stored listing is never changed or removed, whatever time
\* passes; and a request that finds the structured 403 stored answers with that
\* payload and asks neither the cache nor the network.
C18_NegativePersisted ==
    /\ []NegativeStays
    /\ [][/\ packageListing # NotStored => packageListing' = packageListing
          /\ (ReturnStep /\ req[Handler].result = Ok(Forbidden))
                => packageListing' \in {NotStored, JSONStringify(Forbidden)}
          /\ (FindStep /\ packageListing = JSONStringify(Forbidden))
                => /\ ctx' = FilesBody(Forbidden, "store")
                   /\ handler'.stage = "responded"
                   /\ req' = req /\ load' = load /\ fetchCache' = fetchCache]_vars

\* C18 witness: a request has been answered with the stored 403 payload after
\* the cache entry of the URL has expired, when a fetch would have asked the
\* CDN again
C18_Witness ==
    /\ handler.stage = "responded"
    /\ ctx = FilesBody(Forbidden, "store")
    /\ packageListing = JSONStringify(Forbidden)
    /\ fetchCache[FilesUrl(type, version)].state = "settled"
    /\ now >= fetchCache[FilesUrl(type, version)].expiresAt

\* the request's version is a commit hash of a GitHub repository
CommitHash == type = "gh" /\ isSha(version)

\* a lookup of the listing (the store read or the fetch) is under way only for
\* a version found in the fetched document, or for a commit hash, for which no
\* document was fetched
LookupIsValidated ==
    handler.stage \in {"files", "fetch"} =>
        IF CommitHash
        THEN ~handler.validated /\ metadata = NoDocument
        ELSE handler.validated /\ Includes(metadata.versions, version)

\* C19: handleVersionFiles looks the listing up (store read, then fetch) only
\* after the version was found in the fetched metadata, or at once, without
\* fetching metadata, for a commit hash of a GitHub repository; a failed
\* metadata lookup and a version that is not in the document end the request
\* with an error body, the store and the listing's cache entry untouched.
C19_ValidateBeforeFetch ==
    /\ []LookupIsValidated
    /\ [][/\ (GetStep(Handler) /\ req'[Handler].key \in Keys) => ~CommitHash
          /\ (GetStep(Handler) /\ req'[Handler].key = FilesUrl(type, version))
                => handler.stage = "fetch"
          /\ ctx'.via = "store" => (ctx = ctx' \/ FindStep)
          /\ (handler.stage = "metadata" /\ handler'.stage = "responded")
                => /\ req[Handler].result.kind = "err"
                         \/ ~Includes(req[Handler].result.doc.versions, version)
                   /\ ctx'.kind = "body"
                   /\ ctx'.status \in {404, 502, 504}
                   /\ packageListing' = packageListing
                   /\ fetchCache' = fetchCache
          /\ (handler.stage = "metadata" /\ handler'.stage = "files")
                => Includes(req[Handler].result.doc.versions, version)]_vars

\* C19 witness: a request for a version that the fetched document does not
\* list has been answered with a 404 body, no listing stored and none cached
C19_Witness ==
    /\ handler.stage = "responded"
    /\ metadata # NoDocument
    /\ ~Includes(metadata.versions, version)
    /\ ctx = Body(404, "load", NoErr, "metadata")
    /\ packageListing = NotStored
    /\ fetchCache[FilesUrl(type, version)] = AbsentEntry

\* the status of the body by the class of an upstream failure: not found,
\* timed out, anything else
StatusOfClass(error) ==
    IF error.status = 404 THEN 404
    ELSE IF error.class = "TimeoutError" THEN 504
    ELSE 502

\* getMetadata() has thrown and handleVersionFiles answers
MetadataFailsStep ==
    /\ handler.stage = "metadata" /\ handler'.stage = "responded"
    /\ req[Handler].result.kind = "err"

\* C20: when a metadata loader leaves a negative result in the cache (npm 404,
\* GitHub 404, GitHub blocked 403), the stored error is answered with the same
\* status as the upstream error it stands for, and so is every request served
\* from the entry: 404 for the not-found cases, 502 for the blocked 403.
C20_CachedFailureKeepsClass ==
    [][/\ \A k \in Keys :
             (SettleStep(Handler) /\ load[Handler].key = k
                  /\ fetchCache'[k].state = "settled" /\ fetchCache'[k].value.kind = "err")
                 => /\ StatusOfClass(fetchCache'[k].value.err)
                          = StatusOfClass(req'[Handler].result.err)
                    /\ req'[Handler].result.err.status \in {404, 403}
       /\ MetadataFailsStep
             => /\ ctx'.kind = "body"
                /\ ctx'.status = StatusOfClass(req[Handler].result.err)
                /\ req[Handler].via = "hit"
                      => ctx'.status = IF req[Handler].result.err.status = 404
                                       THEN 404 ELSE 502]_vars

\* C20 witness: a request has been answered 502 from the cached negative
\* result of a blocked 403
C20_Witness ==
    /\ handler.stage = "responded"
    /\ type = "gh"
    /\ ctx = Body(502, "hit", Err("Object", 403, FALSE, 0), "metadata")

\* a structured 403 file listing is answered as the body, with its status
ForbiddenPassedThrough ==
    ctx.value = Forbidden => ctx.kind = "files" /\ ctx.status = 403

\* C14 as claimed: whichever lookup an upstream failure comes from, the
\* response has status 404 for a not-found, 504 for a timeout and 502 for
\* anything else, and a structured 403 listing is passed through.
C14_AsClaimed ==
    /\ ctx.error # NoErr
          => ctx.kind \in {"body", "status"} /\ ctx.status = StatusOfClass(ctx.error)
    /\ ForbiddenPassedThrough

\* C14 amended: a failure of the metadata lookup is answered with a body of
\* status 404 for a not-found, 504 for a timeout and 502 for anything else. A
\* failure of the file-listing fetch is answered with status 504 for a timeout
\* and 502 for another transport error, with a body carrying the upstream status
\* itself for an HTTP error status (404, but also 500), and is rethrown, with
\* no status set, for a parse failure. A structured 403 listing is passed
\* through with status 403.
C14_StatusMapping ==
    /\ (ctx.error # NoErr /\ ctx.during = "metadata")
          => ctx.kind = "body" /\ ctx.status = StatusOfClass(ctx.error)
    /\ (ctx.error # NoErr /\ ctx.during = "files")
          => /\ ctx.error \in FilesFailures
             /\ ctx.error.class = "TimeoutError"
                   => ctx.kind = "status" /\ ctx.status = 504
             /\ ctx.error.class = "got.RequestError"
                   => ctx.kind = "status" /\ ctx.status = 502
             /\ ctx.error.class = "HTTPError"
                   => ctx.kind = "body" /\ ctx.status = ctx.error.status
             /\ ctx.error.class = "ParseError" => ctx.kind = "throw"
    /\ ForbiddenPassedThrough

\* C14 witness: the file-listing fetch failed with HTTP 500 and the request
\* has been answered with a body of status 500
C14_Witness ==
    /\ handler.stage = "responded"
    /\ ctx = Body(500, "load", Err("HTTPError", 500, FALSE, 0), "files")

====
